---- MODULE Spec2Model ----
(***************************************************************************)
(* Document-Forgery-Detector: the ForgeryDetector of                       *)
(* backend/forgery_detector.py as a state machine.                         *)
(*                                                                         *)
(* Numbers.  A probability p is an integer number of millionths            *)
(* (0 .. Scale).  A confidence_score (a percentage before rounding) is an  *)
(* integer number of 1/10000 percent, so p * 100 percent is the integer p. *)
(* A reported confidence (after round(x, 2)) is an integer number of       *)
(* hundredths of a percent (0 .. 10000 for 0.00 .. 100.00).                *)
(*                                                                         *)
(* Files.  A path is a sequence of tokens; "." and "/" are tokens of their *)
(* own, so str.replace('.', '_temp.') is computed token by token.          *)
(***************************************************************************)
EXTENDS Integers, Sequences, FiniteSets, TLC

VARIABLES
    pc,         \* "new": ForgeryDetector() not yet called; "ready": constructed;
                \* "failed": the constructor raised
    artifact,   \* models/ela_cnn_model.h5: absent, corrupt, or the model it holds
    model,      \* self.model
    fs,         \* the file system: path -> content
    call,       \* what the last analyze_image call did
    result,     \* what that call returned (or raised)
    reqs,       \* the HTTP requests of server.py: slot -> the handler's state
    db,         \* db.analyses: the stored analysis documents
    queue,      \* executor: the submitted jobs no worker has taken yet
    running     \* executor: the jobs its worker threads are executing

vars == <<pc, artifact, model, fs, call, result, reqs, db, queue, running>>

-----------------------------------------------------------------------------
(* Bounds and units *)

\* The largest raw difference (max_diff) an image of the file system shows
\* after recompression.
MaxDiff == 2

\* One whole probability, in millionths.
Scale == 1000 * 1000

\* confidence_score units per reported hundredth of a percent.
RoundUnit == 10 * 10

Min(a, b) == IF a < b THEN a ELSE b

-----------------------------------------------------------------------------
(* Program constants *)

\* forgery_detector.py:155  if confidence > 0.5  (in millionths: Scale / 2)
ForgedThreshold == Scale \div 2

\* forgery_detector.py:217  laplacian_var < 100
SharpnessThreshold == 100

\* forgery_detector.py:220  edge_density > 0.1, in thousandths
EdgeDensityThreshold == 100

\* forgery_detector.py:223  noise_level > 10
NoiseThreshold == 10

\* forgery_detector.py:227  forgery_indicators >= 2
IndicatorThreshold == 2

\* forgery_detector.py:229  60 + forgery_indicators * 15
ForgedBase == 60

ForgedStep == 15

\* forgery_detector.py:232  70 + (3 - forgery_indicators) * 10
GenuineBase == 70

GenuineStep == 10

IndicatorTotal == 3

\* forgery_detector.py:234  min(confidence, 95)
ConfidenceCap == 95

\* forgery_detector.py:90, 122  255.0
PixelMax == 255

\* forgery_detector.py:98, 105  the ELA map is 128 x 128 x 3
ElaSide == 128

ElaChannels == 3

-----------------------------------------------------------------------------
(* Paths and files *)

PathImage == <<"a", ".", "jpg">>

PathFlat == <<"f", ".", "png">>

PathGarbage == <<"b", ".", "jpg">>

PathNoDot == <<"c">>

PathDotDir == <<"d", ".", "v", "/", "e", ".", "jpg">>

InputPaths == {PathImage, PathFlat, PathGarbage, PathNoDot, PathDotDir}

\* str(image_path).replace('.', '_temp.'): every "." of the path is replaced.
RECURSIVE TempPath(_)
TempPath(path) ==
    IF path = <<>> THEN <<>>
    ELSE (IF Head(path) = "." THEN <<"_temp", ".">> ELSE <<Head(path)>>)
         \o TempPath(Tail(path))

AllPaths == InputPaths \cup {TempPath(q) : q \in InputPaths}

\* The directory part of a path: the tokens before its last "/".
RECURSIVE DirOf(_)
DirOf(path) ==
    IF path = <<>> THEN <<>>
    ELSE IF path[Len(path)] = "/" THEN SubSeq(path, 1, Len(path) - 1)
    ELSE DirOf(SubSeq(path, 1, Len(path) - 1))

\* server.py:48-49  UPLOAD_DIR, created at import.
UPLOAD_DIR == <<"up">>

\* The directories that exist: those of the input files, and UPLOAD_DIR.
Dirs == {DirOf(q) : q \in InputPaths} \cup {UPLOAD_DIR}

Absent == [kind |-> "absent", max_diff |-> 0]

Garbage == [kind |-> "garbage", max_diff |-> 0]

ImageFile(d) == [kind |-> "image", max_diff |-> d]

JpegFile(d) == [kind |-> "jpeg", max_diff |-> d]

Contents == {Absent, Garbage}
            \cup {ImageFile(d) : d \in 0..MaxDiff}
            \cup {JpegFile(d) : d \in 0..MaxDiff}

\* What PIL's Image.open / cv2.imread can decode.
Decodable == {"image", "jpeg"}

\* The uploads present before any call.
InitialFiles ==
    [q \in AllPaths |->
        IF q \in {PathImage, PathNoDot, PathDotDir} THEN ImageFile(MaxDiff)
        ELSE IF q = PathFlat THEN ImageFile(0)
        ELSE IF q = PathGarbage THEN Garbage
        ELSE Absent]

-----------------------------------------------------------------------------
(* ELA maps, tensors and classifiers *)

ElaShape == <<ElaSide, ElaSide, ElaChannels>>

\* An ELA map, by its shape and its brightest pixel value.
ElaMap(peak) == [shape |-> ElaShape, peak |-> peak]

\* np.zeros((128, 128, 3), dtype=np.uint8)
ZeroMap == ElaMap(0)

\* A feature tensor, by its shape and its largest value in millionths.
Tensor(peak) == [shape |-> <<1>> \o ElaShape, peak |-> peak]

\* np.zeros((1, 128, 128, 3), dtype=np.float32)
ZeroTensor == Tensor(0)

TensorPeaks == {0, Scale}

\* Probabilities a classifier may answer, in millionths: the ends, the
\* threshold and its neighbour, a value with more than two decimals of
\* percent, and 17/32, whose percentage 53.125 is a rounding tie.
PVals == {0, 123456, Scale \div 2, (Scale \div 2) + 1, (17 * Scale) \div 32, Scale}

\* Output shapes of predict on a single-image batch.
Shapes == {<<1, 1>>, <<1, 2>>, <<1>>, <<1, 0>>, <<1, 1, 2>>}

NoModel == [kind |-> "None", out_shape |-> <<>>, p |-> [t \in TensorPeaks |-> 0]]

\* What a classifier answers for each tensor: the same probability for
\* every input, or one for the zero tensor and its complement otherwise.
Weights ==
    {[t \in TensorPeaks |-> v] : v \in PVals}
    \cup {[t \in TensorPeaks |-> IF t = 0 THEN v ELSE Scale - v] : v \in {0, 123456}}

\* The models a file at model_path may hold: the architecture's own output
\* shape (1,1) with any weights, or another output shape.
LoadableModels ==
    {[kind |-> "loaded", out_shape |-> <<1, 1>>, p |-> f] : f \in Weights}
    \cup {[kind |-> "loaded", out_shape |-> <<1, 2>>, p |-> [t \in TensorPeaks |-> v]] :
            v \in {123456, Scale}}
    \cup {[kind |-> "loaded", out_shape |-> s, p |-> [t \in TensorPeaks |-> 0]] :
            s \in Shapes \ {<<1, 1>>, <<1, 2>>}}

\* The placeholder: Dense(1, sigmoid) output, weights random but then fixed.
PlaceholderModels ==
    {[kind |-> "placeholder", out_shape |-> <<1, 1>>, p |-> f] : f \in Weights}

Artifacts == {[kind |-> "absent", holds |-> NoModel], [kind |-> "corrupt", holds |-> NoModel]}
             \cup {[kind |-> "valid", holds |-> m] : m \in LoadableModels}

-----------------------------------------------------------------------------
(* ForgeryDetector.load_model *)

\* _create_placeholder_model: the fixed architecture with weights w.
_create_placeholder_model(w) == w

\* load_model with the except branch re-raising instead of falling back.
load_model_NoFallback(art, w) ==
    IF art.kind = "valid" THEN [raised |-> FALSE, model |-> art.holds]
    ELSE IF art.kind = "absent"
        THEN [raised |-> FALSE, model |-> _create_placeholder_model(w)]
    ELSE [raised |-> TRUE, model |-> NoModel]

\* load_model with the except branch only logging: self.model stays None.
load_model_LeavesNone(art, w) ==
    IF art.kind = "valid" THEN [raised |-> FALSE, model |-> art.holds]
    ELSE IF art.kind = "absent"
        THEN [raised |-> FALSE, model |-> _create_placeholder_model(w)]
    ELSE [raised |-> FALSE, model |-> NoModel]

\* load_model: the file's model if model_path exists and loads; the
\* placeholder if the file is absent (else branch) or loading raises (except
\* branch).  w is the placeholder's random initialisation.  raised: an
\* exception leaves load_model, and so __init__.
load_model(art, w) ==
    IF art.kind = "valid" THEN [raised |-> FALSE, model |-> art.holds]
    ELSE IF art.kind = "absent"
        THEN [raised |-> FALSE, model |-> _create_placeholder_model(w)]
    ELSE [raised |-> FALSE, model |-> _create_placeholder_model(w)]

-----------------------------------------------------------------------------
(* ForgeryDetector.calculate_ela *)

\* Steps of calculate_ela at which the environment can make a call fail
\* whatever the files hold (I/O error, out of memory).
\* A save that fails is taken to leave no file behind.
Faults == {"none", "open", "save", "reopen", "difference", "remove", "resize"}

\* scale = 255.0 / max_diff with max_diff 0 taken as 1; Brightness.enhance
\* clamps to the pixel range.  The brightest pixel of the enhanced map.
EnhancedPeak(max_diff) ==
    LET md == IF max_diff = 0 THEN 1 ELSE max_diff
    IN  Min(PixelMax, (max_diff * PixelMax) \div md)

\* The except branch returning an uninitialised map instead of zeros.
ela_except_Unzeroed(f, step) ==
    [raised |-> FALSE, ela |-> ElaMap(PixelMax), fs |-> f, failed |-> step]

\* No except branch: the failure leaves calculate_ela.
ela_except_Raises(f, step) ==
    [raised |-> TRUE, ela |-> ZeroMap, fs |-> f, failed |-> step]

\* What the except branch of calculate_ela does with a failure at `step`,
\* the files being f by then.
ela_except(f, step) ==
    [raised |-> FALSE, ela |-> ZeroMap, fs |-> f, failed |-> step]

\* calculate_ela(image_path) on the files fsys, the environment failing the
\* step `fault`.  Returns the map, the files afterwards, and the step that
\* failed ("none": the try block ran to its return).
calculate_ela(fsys, image_path, fault) ==
    LET temp_path == TempPath(image_path)
        src == fsys[image_path]
        saved == [fsys EXCEPT ![temp_path] = JpegFile(src.max_diff)]
        removed == [saved EXCEPT ![temp_path] = Absent]
    IN  IF fault = "open" \/ src.kind \notin Decodable
            THEN ela_except(fsys, "open")
        ELSE IF fault = "save" \/ DirOf(temp_path) \notin Dirs
            THEN ela_except(fsys, "save")
        ELSE IF fault = "reopen" THEN ela_except(saved, "reopen")
        ELSE IF fault = "difference" THEN ela_except(saved, "difference")
        ELSE IF fault = "remove" THEN ela_except(saved, "remove")
        ELSE IF fault = "resize" THEN ela_except(removed, "resize")
        ELSE [raised |-> FALSE, ela |-> ElaMap(EnhancedPeak(src.max_diff)),
              fs |-> removed, failed |-> "none"]

-----------------------------------------------------------------------------
(* ForgeryDetector.preprocess_image *)

\* ela_image.astype(np.float32) / 255.0, in millionths.
Normalize(peak) == (peak * Scale) \div PixelMax

\* preprocess_image: the normalised ELA map with a batch axis; the zero
\* tensor if anything in the try block raised.
preprocess_image(fsys, image_path, fault) ==
    LET e == calculate_ela(fsys, image_path, fault)
    IN  IF e.raised
            THEN [raised |-> FALSE, tensor |-> ZeroTensor, ela |-> e]
            ELSE [raised |-> FALSE, tensor |-> Tensor(Normalize(e.ela.peak)), ela |-> e]

-----------------------------------------------------------------------------
(* ForgeryDetector._traditional_analysis *)

\* One percent, in confidence_score units.
Percent == 100 * 100

\* Image metrics around the thresholds: laplacian_var, edge_density (in
\* thousandths) and noise_level.
MetricSets ==
    [laplacian_var : {SharpnessThreshold - 1, SharpnessThreshold},
     edge_density : {EdgeDensityThreshold, EdgeDensityThreshold + 1},
     noise_level : {NoiseThreshold, NoiseThreshold + 1}]

\* forgery_indicators
Indicators(mt) ==
    (IF mt.laplacian_var < SharpnessThreshold THEN 1 ELSE 0)
    + (IF mt.edge_density > EdgeDensityThreshold THEN 1 ELSE 0)
    + (IF mt.noise_level > NoiseThreshold THEN 1 ELSE 0)

\* The mapping without the min(confidence, 95) of line 234.
HeuristicVerdict_NoCap(n) ==
    IF n >= IndicatorThreshold
        THEN <<"Forged", ForgedBase + n * ForgedStep>>
        ELSE <<"Genuine", GenuineBase + (IndicatorTotal - n) * GenuineStep>>

\* The mapping with one indicator already enough for Forged.
HeuristicVerdict_OneIndicator(n) ==
    IF n >= IndicatorThreshold - 1
        THEN <<"Forged", Min(ForgedBase + n * ForgedStep, ConfidenceCap)>>
        ELSE <<"Genuine", Min(GenuineBase + (IndicatorTotal - n) * GenuineStep, ConfidenceCap)>>

\* The mapping with the Genuine confidence counted from 2 instead of 3.
HeuristicVerdict_TwoSteps(n) ==
    IF n >= IndicatorThreshold
        THEN <<"Forged", Min(ForgedBase + n * ForgedStep, ConfidenceCap)>>
        ELSE <<"Genuine", Min(GenuineBase + (IndicatorTotal - 1 - n) * GenuineStep, ConfidenceCap)>>

\* The verdict and confidence (in percent) for n indicators, lines 226-234.
HeuristicVerdict(n) ==
    IF n >= IndicatorThreshold
        THEN <<"Forged", Min(ForgedBase + n * ForgedStep, ConfidenceCap)>>
        ELSE <<"Genuine", Min(GenuineBase + (IndicatorTotal - n) * GenuineStep, ConfidenceCap)>>

\* _traditional_analysis(image_path): ("Error", 0.0) if cv2.imread returns
\* None or anything raises (cv_fault), else the indicator mapping.
_traditional_analysis(fsys, image_path, mt, cv_fault) ==
    IF fsys[image_path].kind \notin Decodable
        THEN [raised |-> FALSE, verdict |-> "Error", confidence |-> 0, indicators |-> -1]
    ELSE IF cv_fault
        THEN [raised |-> FALSE, verdict |-> "Error", confidence |-> 0, indicators |-> -1]
    ELSE LET n == Indicators(mt)
             v == HeuristicVerdict(n)
         IN  [raised |-> FALSE, verdict |-> v[1], confidence |-> v[2] * Percent,
              indicators |-> n]

-----------------------------------------------------------------------------
(* ForgeryDetector.analyze_image *)

\* Python's round(x, 2) of a percentage: to the nearest hundredth, an exact
\* tie to the even hundredth.  From confidence_score units to hundredths.
Round2(score) ==
    LET q == score \div RoundUnit
        r == score % RoundUnit
    IN  IF 2 * r < RoundUnit THEN q
        ELSE IF 2 * r > RoundUnit THEN q + 1
        ELSE IF q % 2 = 0 THEN q ELSE q + 1

RECURSIVE Product(_)
Product(shape) == IF shape = <<>> THEN 1 ELSE Head(shape) * Product(Tail(shape))

\* float(prediction[0][0]) on an array of the given shape: "ok", or the
\* exception it raises.  Indexing needs two axes with an element 0 each;
\* float() needs what is left to hold exactly one number.
Index00(shape) ==
    IF Len(shape) < 2 THEN "IndexError"
    ELSE IF shape[1] = 0 \/ shape[2] = 0 THEN "IndexError"
    ELSE IF Product(SubSeq(shape, 3, Len(shape))) # 1 THEN "TypeError"
    ELSE "ok"

\* The mapping reporting the raw probability for a Genuine verdict.
VerdictMapper_RawP(p) ==
    IF p > ForgedThreshold
        THEN <<"Forged", p>>
        ELSE <<"Genuine", p>>

\* The mapping with the threshold itself counted as Forged.
VerdictMapper_Inclusive(p) ==
    IF p >= ForgedThreshold
        THEN <<"Forged", p>>
        ELSE <<"Genuine", Scale - p>>

\* Lines 155-160: the verdict and confidence_score for the probability p.
VerdictMapper(p) ==
    IF p > ForgedThreshold
        THEN <<"Forged", p>>
        ELSE <<"Genuine", Scale - p>>

\* The dictionary of the success return, lines 165-170.
SuccessResult(m, verdict, confidence_score) ==
    [raised |-> FALSE,
     verdict |-> verdict,
     confidence |-> Round2(confidence_score),
     ela_processed |-> TRUE,
     analysis_method |-> IF m.kind # "None" THEN "CNN + ELA" ELSE "Traditional",
     error |-> "absent"]

\* The dictionary of the except branch, lines 172-179.
ErrorResult(exc) ==
    [raised |-> FALSE,
     verdict |-> "Error",
     confidence |-> 0,
     ela_processed |-> FALSE,
     analysis_method |-> "absent",
     error |-> exc]

\* Lines 148-163: the classification, given the tensor.
Classify(m, fsys, image_path, tensor, mt, cv_fault) ==
    IF m.kind # "None"
        THEN LET idx == Index00(m.out_shape)
                 confidence == m.p[tensor.peak]
                 v == VerdictMapper(confidence)
             IN  IF idx # "ok"
                     THEN [raised |-> TRUE, exc |-> idx, verdict |-> "none",
                           confidence_score |-> 0, branch |-> "cnn",
                           p |-> -1, indicators |-> -1]
                     ELSE [raised |-> FALSE, exc |-> "none", verdict |-> v[1],
                           confidence_score |-> v[2], branch |-> "cnn",
                           p |-> confidence, indicators |-> -1]
        ELSE LET t == _traditional_analysis(fsys, image_path, mt, cv_fault)
             IN  [raised |-> t.raised, exc |-> "none", verdict |-> t.verdict,
                  confidence_score |-> t.confidence, branch |-> "heuristic",
                  p |-> -1, indicators |-> t.indicators]

\* analyze_image(image_path): the whole try / except.
analyze_image(m, fsys, image_path, fault, mt, cv_fault) ==
    LET pre == preprocess_image(fsys, image_path, fault)
        c == Classify(m, pre.ela.fs, image_path, pre.tensor, mt, cv_fault)
    IN  [ret |-> IF pre.raised THEN ErrorResult("preprocess")
                 ELSE IF c.raised THEN ErrorResult(c.exc)
                 ELSE SuccessResult(m, c.verdict, c.confidence_score),
         fs |-> pre.ela.fs,
         call |-> [op |-> "analyze_image",
                   path |-> image_path,
                   src_kind |-> fsys[image_path].kind,
                   ela_failed |-> pre.ela.failed,
                   env_fault |-> pre.ela.failed # calculate_ela(fsys, image_path, "none").failed,
                   ela_raised |-> pre.ela.raised,
                   ela |-> pre.ela.ela,
                   tensor |-> pre.tensor,
                   branch |-> c.branch,
                   out_shape |-> m.out_shape,
                   p |-> c.p,
                   indicators |-> c.indicators]]

-----------------------------------------------------------------------------
(* The state machine *)

NoCall ==
    [op |-> "none", path |-> <<>>, src_kind |-> "absent", ela_failed |-> "none",
     env_fault |-> FALSE,
     ela_raised |-> FALSE, ela |-> ZeroMap,
     tensor |-> ZeroTensor, branch |-> "none", out_shape |-> <<>>,
     p |-> -1, indicators |-> -1]

NoResult ==
    [raised |-> FALSE, verdict |-> "none", confidence |-> 0,
     ela_processed |-> FALSE, analysis_method |-> "absent", error |-> "absent"]

\* Before ForgeryDetector() is called: the model file is in any state.
Init ==
    /\ pc = "new"
    /\ artifact \in Artifacts
    /\ model = NoModel
    /\ fs = InitialFiles
    /\ call = NoCall
    /\ result = NoResult
    /\ reqs = <<>>
    /\ db = {}
    /\ queue = <<>>
    /\ running = {}

\* A detector object whose model attribute is None: the state the else
\* branches of analyze_image (line 161), save_model and get_model_info are
\* written for.
InitNoModel ==
    /\ pc = "ready"
    /\ artifact = [kind |-> "absent", holds |-> NoModel]
    /\ model = NoModel
    /\ fs = InitialFiles
    /\ call = NoCall
    /\ result = NoResult
    /\ reqs = <<>>
    /\ db = {}
    /\ queue = <<>>
    /\ running = {}

InitAny == Init \/ InitNoModel

\* detector = ForgeryDetector(): __init__ and load_model.
Construct ==
    /\ pc = "new"
    /\ \E w \in PlaceholderModels :
        LET l == load_model(artifact, w)
        IN  /\ model' = IF l.raised THEN NoModel ELSE l.model
            /\ pc' = IF l.raised THEN "failed" ELSE "ready"
    /\ UNCHANGED <<artifact, fs, call, result, reqs, db, queue, running>>

NoMetrics == [laplacian_var |-> 0, edge_density |-> 0, noise_level |-> 0]

\* The inputs of the heuristic branch are read only when the model is None
\* (line 163): with a model present they are not drawn.
HeuristicInputs(m, values, unused) == IF m.kind = "None" THEN values ELSE {unused}

\* detector.analyze_image(path)
AnalyzeImage ==
    /\ pc = "ready"
    /\ \E path \in InputPaths, fault \in Faults,
          cv_fault \in HeuristicInputs(model, BOOLEAN, FALSE) :
       \E mt \in (IF cv_fault THEN {NoMetrics}
                  ELSE HeuristicInputs(model, MetricSets, NoMetrics)) :
        LET a == analyze_image(model, fs, path, fault, mt, cv_fault)
        IN  /\ result' = a.ret
            /\ fs' = a.fs
            /\ call' = a.call
    /\ UNCHANGED <<pc, artifact, model, reqs, db, queue, running>>

Next == Construct \/ AnalyzeImage

Spec == Init /\ [][Next]_vars

SpecAny == InitAny /\ [][Next]_vars

-----------------------------------------------------------------------------
(* server.py: the API layer *)

\* server.py:52  ThreadPoolExecutor(max_workers=4)
PoolSize == 4

\* The pool jobs of the executor specification.
MaxJobs == 5

\* server.py:118  allowed_types, with every content type let through.
allowed_types_Any == {"image/jpeg", "image/png", "text/plain"}

\* server.py:118  allowed_types
allowed_types == {"image/jpeg", "image/png"}

\* The multipart uploads a client sends: file name, declared content type
\* and the bytes.
Uploads ==
    {[filename |-> <<"x", ".", "JPG">>, content_type |-> "image/jpeg",
      content |-> ImageFile(MaxDiff)],
     [filename |-> <<"y", ".", "png">>, content_type |-> "image/png",
      content |-> ImageFile(0)],
     [filename |-> <<"scan">>, content_type |-> "image/jpeg",
      content |-> Garbage],
     [filename |-> <<"z", ".", "txt">>, content_type |-> "text/plain",
      content |-> Garbage]}

NoUpload == [filename |-> <<>>, content_type |-> "", content |-> Absent]

\* str.lower() on the tokens of the file names.
Lower(t) == IF t = "JPG" THEN "jpg" ELSE t

\* server.py:124  file.filename.split('.')[-1].lower()
Ext(filename) == Lower(filename[Len(filename)])

\* server.py:123  str(uuid.uuid4()): a fresh identifier, with every request
\* given the same one.
uuid4_Same(r) == "u1"

\* server.py:123  str(uuid.uuid4()): a fresh identifier for each request.
uuid4(r) == "u" \o ToString(r)

\* server.py:125-126  UPLOAD_DIR / f"{file_id}.{ext}"
UploadPath(file_id, ext) == UPLOAD_DIR \o <<"/", file_id, ".", ext>>

\* pdf_generator.py:19, 61-62  reports_dir / forgery_report_{id}_{timestamp}.pdf
ReportPath(id) == <<"reports", "/", "forgery_report_", id, ".", "pdf">>

PdfFile == [kind |-> "pdf", max_diff |-> 0]

\* The id of an analysis stored before the server was started, and an id
\* nothing was ever stored under.
StoredId == "u0"

UnknownId == "unknown"

\* The files the server can touch for the requests in slots.
ServerPaths(slots) ==
    LET ups == {UploadPath(uuid4(r), Ext(u.filename)) : r \in slots, u \in Uploads}
    IN  ups \cup {TempPath(q) : q \in ups}
        \cup {ReportPath(id) : id \in {uuid4(r) : r \in slots} \cup {StoredId, UnknownId}}

\* The detector of server.py:60, constructed at import: a placeholder that
\* tells the zero map from a map with signal.
ServerModels == {m \in PlaceholderModels : m.p[0] # m.p[Scale]}

\* A request that has not arrived yet.
NewRequest(kind) ==
    [kind |-> kind, pc |-> "new", upload |-> NoUpload, id |-> "", path |-> <<>>,
     original |-> Absent, ela |-> ZeroMap, ret |-> NoResult, found |-> FALSE,
     status |-> 0, detail |-> ""]

\* server.py:134-140  AnalysisResult(id=..., filename=..., verdict=..., ...)
AnalysisResult(file_id, filename, ret) ==
    [id |-> file_id, filename |-> filename, verdict |-> ret.verdict,
     confidence |-> ret.confidence, ela_processed |-> ret.ela_processed]

\* server.py:143  insert_one, with the document dropped.
insert_one_Dropped(docs, doc) == docs

\* server.py:143  await db.analyses.insert_one(analysis.dict())
insert_one(docs, doc) == docs \cup {doc}

\* server.py:157  await db.analyses.find_one({"id": analysis_id})
find_one(docs, id) == {d \in docs : d.id = id}

\* loop.run_in_executor(executor, fn, ...): the job is queued for a worker.
run_in_executor(q, r) == Append(q, r)

\* ThreadPoolExecutor with no limit on its workers.
executor_can_start_Unbounded(busy) == TRUE

\* ThreadPoolExecutor(max_workers=4): a job leaves the queue only when fewer
\* than max_workers workers are busy.
executor_can_start(busy) == Cardinality(busy) < PoolSize

\* server.py:170-172  except Exception as e: the handler of generate_report.
generate_report_except(exc) ==
    [status |-> 500, detail |-> <<"Report generation failed: ", exc>>]

\* ImageChops.difference(original, recompressed): the largest difference.
\* A recompression of another image differs from the original somewhere.
Difference(original, recompressed) ==
    IF recompressed.max_diff = original.max_diff THEN {original.max_diff}
    ELSE 1..MaxDiff

\* forgery_detector.py:118-170  from the ELA map to the returned dictionary.
predict_result(m, fsys, image_path, ela) ==
    LET c == Classify(m, fsys, image_path, Tensor(Normalize(ela.peak)), NoMetrics, FALSE)
    IN  IF c.raised THEN ErrorResult(c.exc)
        ELSE SuccessResult(m, c.verdict, c.confidence_score)

\* The job of request r is over: its future is resolved with ret.
JobDone(r, e, ret) ==
    /\ reqs' = [reqs EXCEPT ![r] = [@ EXCEPT !.pc = "finished", !.ela = e, !.ret = ret]]
    /\ running' = running \ {r}

\* POST /api/analyze up to the await of line 132: the content-type check,
\* the upload written under a fresh name, the analysis handed to the pool.
AnalyzeReceive(r, up) ==
    /\ reqs[r].kind = "analyze"
    /\ reqs[r].pc = "new"
    /\ IF up.content_type \notin allowed_types
        THEN /\ reqs' = [reqs EXCEPT ![r] =
                    [@ EXCEPT !.upload = up, !.pc = "responded", !.status = 400,
                              !.detail = <<"Unsupported file type: ", up.content_type>>]]
             /\ UNCHANGED <<fs, queue>>
        ELSE LET file_id == uuid4(r)
                 file_path == UploadPath(file_id, Ext(up.filename))
             IN  /\ fs' = [fs EXCEPT ![file_path] = up.content]
                 /\ queue' = run_in_executor(queue, r)
                 /\ reqs' = [reqs EXCEPT ![r] =
                        [@ EXCEPT !.upload = up, !.pc = "queued", !.id = file_id,
                                  !.path = file_path]]
    /\ UNCHANGED <<pc, artifact, model, call, result, db, running>>

\* A worker thread of the executor takes the oldest queued job.
PoolStart ==
    /\ queue # <<>>
    /\ executor_can_start(running)
    /\ running' = running \cup {Head(queue)}
    /\ queue' = Tail(queue)
    /\ reqs' = [reqs EXCEPT ![Head(queue)] = [@ EXCEPT !.pc = "running"]]
    /\ UNCHANGED <<pc, artifact, model, fs, call, result, db>>

\* calculate_ela lines 73-77 on a worker: open the upload, save the
\* quality-90 JPEG at temp_path.  A failure ends in the zero map
\* (lines 102-105) and the prediction on it.
ElaSave(r) ==
    /\ r \in running
    /\ reqs[r].kind = "analyze"
    /\ reqs[r].pc = "running"
    /\ LET image_path == reqs[r].path
           temp_path == TempPath(image_path)
           src == fs[image_path]
       IN  IF src.kind \notin Decodable \/ DirOf(temp_path) \notin Dirs
               THEN /\ JobDone(r, ZeroMap, predict_result(model, fs, image_path, ZeroMap))
                    /\ UNCHANGED fs
               ELSE /\ fs' = [fs EXCEPT ![temp_path] = JpegFile(src.max_diff)]
                    /\ reqs' = [reqs EXCEPT ![r] =
                           [@ EXCEPT !.pc = "reopen", !.original = src]]
                    /\ UNCHANGED running
    /\ UNCHANGED <<pc, artifact, model, call, result, db, queue>>

\* calculate_ela lines 80-90: reopen temp_path, take the difference with the
\* original and enhance it.
ElaReopen(r) ==
    /\ r \in running
    /\ reqs[r].pc = "reopen"
    /\ LET image_path == reqs[r].path
           recompressed == fs[TempPath(image_path)]
       IN  IF recompressed.kind \notin Decodable
               THEN JobDone(r, ZeroMap, predict_result(model, fs, image_path, ZeroMap))
               ELSE /\ \E d \in Difference(reqs[r].original, recompressed) :
                        reqs' = [reqs EXCEPT ![r] =
                            [@ EXCEPT !.pc = "remove", !.ela = ElaMap(EnhancedPeak(d))]]
                    /\ UNCHANGED running
    /\ UNCHANGED <<pc, artifact, model, fs, call, result, db, queue>>

\* calculate_ela lines 94-100 and analyze_image lines 145-170: remove
\* temp_path, resize, normalise, predict and build the result.
ElaRemove(r) ==
    /\ r \in running
    /\ reqs[r].pc = "remove"
    /\ LET image_path == reqs[r].path
           temp_path == TempPath(image_path)
       IN  IF fs[temp_path].kind = "absent"
               THEN /\ JobDone(r, ZeroMap, predict_result(model, fs, image_path, ZeroMap))
                    /\ UNCHANGED fs
               ELSE /\ fs' = [fs EXCEPT ![temp_path] = Absent]
                    /\ JobDone(r, reqs[r].ela,
                               predict_result(model, fs, image_path, reqs[r].ela))
    /\ UNCHANGED <<pc, artifact, model, call, result, db, queue>>

\* detector.analyze_image(str(file_path)) on a worker, as one step.
AnalyzeJob(r) ==
    /\ r \in running
    /\ reqs[r].kind = "analyze"
    /\ reqs[r].pc = "running"
    /\ LET a == analyze_image(model, fs, reqs[r].path, "none", NoMetrics, FALSE)
       IN  /\ fs' = a.fs
           /\ JobDone(r, a.call.ela, a.ret)
    /\ UNCHANGED <<pc, artifact, model, call, result, db, queue>>

\* POST /api/analyze after the await: lines 134-151.  db_fault: insert_one
\* raises, which the handler turns into a 500.
AnalyzeRespond(r, db_fault) ==
    /\ reqs[r].kind = "analyze"
    /\ reqs[r].pc = "finished"
    /\ IF db_fault
        THEN /\ reqs' = [reqs EXCEPT ![r] =
                    [@ EXCEPT !.pc = "responded", !.status = 500,
                              !.detail = <<"Analysis failed: ", "insert_one">>]]
             /\ UNCHANGED db
        ELSE /\ db' = insert_one(db, AnalysisResult(reqs[r].id, reqs[r].upload.filename,
                                                    reqs[r].ret))
             /\ reqs' = [reqs EXCEPT ![r] =
                    [@ EXCEPT !.pc = "responded", !.status = 200,
                              !.detail = <<"Document analyzed">>]]
    /\ UNCHANGED <<pc, artifact, model, fs, call, result, queue, running>>

\* GET /api/generate-report/{analysis_id} up to the await of line 162.  The
\* HTTPException(404) of line 159 is raised inside the try block and is an
\* Exception: the except branch of line 170 catches it.
ReportReceive(r, analysis_id) ==
    /\ reqs[r].kind = "report"
    /\ reqs[r].pc = "new"
    /\ IF find_one(db, analysis_id) = {}
        THEN LET e == generate_report_except("404: Analysis not found")
             IN  /\ reqs' = [reqs EXCEPT ![r] =
                        [@ EXCEPT !.pc = "responded", !.id = analysis_id,
                                  !.status = e.status, !.detail = e.detail]]
                 /\ UNCHANGED queue
        ELSE /\ queue' = run_in_executor(queue, r)
             /\ reqs' = [reqs EXCEPT ![r] =
                    [@ EXCEPT !.pc = "queued", !.id = analysis_id, !.found = TRUE]]
    /\ UNCHANGED <<pc, artifact, model, fs, call, result, db, running>>

\* pdf_generator.generate_report(analysis) on a worker.  pdf_fault: building
\* or writing the PDF raises (lines 203-205 re-raise).
ReportJob(r, pdf_fault) ==
    /\ r \in running
    /\ reqs[r].kind = "report"
    /\ reqs[r].pc = "running"
    /\ IF pdf_fault
        THEN /\ JobDone(r, ZeroMap, [NoResult EXCEPT !.raised = TRUE])
             /\ UNCHANGED fs
        ELSE /\ fs' = [fs EXCEPT ![ReportPath(reqs[r].id)] = PdfFile]
             /\ JobDone(r, ZeroMap, NoResult)
    /\ UNCHANGED <<pc, artifact, model, call, result, db, queue>>

\* GET /api/generate-report after the await: the FileResponse of lines
\* 164-168, or the except branch for what the job raised.
ReportRespond(r) ==
    /\ reqs[r].kind = "report"
    /\ reqs[r].pc = "finished"
    /\ LET e == generate_report_except("pdf")
       IN  reqs' = [reqs EXCEPT ![r] =
               IF reqs[r].ret.raised
                   THEN [@ EXCEPT !.pc = "responded", !.status = e.status,
                                  !.detail = e.detail]
                   ELSE [@ EXCEPT !.pc = "responded", !.status = 200,
                                  !.detail = <<"application/pdf">>]]
    /\ UNCHANGED <<pc, artifact, model, fs, call, result, db, queue, running>>

\* GET /api/health (lines 94-96): answered on the event loop, which no
\* handler occupies while its job is queued or running.
HealthCheck(r) ==
    /\ reqs[r].kind = "health"
    /\ reqs[r].pc = "new"
    /\ reqs' = [reqs EXCEPT ![r] =
           [@ EXCEPT !.pc = "responded", !.status = 200, !.detail = <<"ok">>]]
    /\ UNCHANGED <<pc, artifact, model, fs, call, result, db, queue, running>>

\* The requests of the two-upload specification: two analyses and a report.
ServerSlots == {1, 2, 3}

ServerKind(r) == IF r \in {1, 2} THEN "analyze" ELSE "report"

\* The server after import: the detector constructed, nothing uploaded,
\* nothing stored.
InitServer ==
    /\ pc = "ready"
    /\ artifact = [kind |-> "absent", holds |-> NoModel]
    /\ model \in ServerModels
    /\ fs = [q \in ServerPaths(ServerSlots) |-> Absent]
    /\ call = NoCall
    /\ result = NoResult
    /\ reqs = [r \in ServerSlots |-> NewRequest(ServerKind(r))]
    /\ db = {}
    /\ queue = <<>>
    /\ running = {}

NextServer ==
    \/ \E r \in DOMAIN reqs, up \in Uploads : AnalyzeReceive(r, up)
    \/ PoolStart
    \/ \E r \in DOMAIN reqs : ElaSave(r)
    \/ \E r \in DOMAIN reqs : ElaReopen(r)
    \/ \E r \in DOMAIN reqs : ElaRemove(r)
    \/ \E r \in DOMAIN reqs, db_fault \in BOOLEAN : AnalyzeRespond(r, db_fault)
    \/ \E r \in DOMAIN reqs, id \in {uuid4(1), uuid4(2), UnknownId} : ReportReceive(r, id)
    \/ \E r \in DOMAIN reqs, pdf_fault \in BOOLEAN : ReportJob(r, pdf_fault)
    \/ \E r \in DOMAIN reqs : ReportRespond(r)

SpecServer == InitServer /\ [][NextServer]_vars

\* The requests of the executor specification: a health check in slot 0 and
\* MaxJobs requests that need the pool, analyses and reports in turn.
PoolSlots == 0..MaxJobs

PoolKind(r) ==
    IF r = 0 THEN "health" ELSE IF r % 2 = 1 THEN "analyze" ELSE "report"

\* The upload every analysis of the executor specification receives.
PoolUpload ==
    [filename |-> <<"x", ".", "JPG">>, content_type |-> "image/jpeg",
     content |-> ImageFile(MaxDiff)]

\* The analysis document stored by an earlier run.
StoredAnalysis ==
    [id |-> StoredId, filename |-> <<"x", ".", "JPG">>, verdict |-> "Genuine",
     confidence |-> 10000, ela_processed |-> TRUE]

InitPool ==
    /\ pc = "ready"
    /\ artifact = [kind |-> "absent", holds |-> NoModel]
    /\ model \in ServerModels
    /\ fs = [q \in ServerPaths(PoolSlots) |-> Absent]
    /\ call = NoCall
    /\ result = NoResult
    /\ reqs = [r \in PoolSlots |-> NewRequest(PoolKind(r))]
    /\ db = {StoredAnalysis}
    /\ queue = <<>>
    /\ running = {}

NextPool ==
    \/ \E r \in DOMAIN reqs : AnalyzeReceive(r, PoolUpload)
    \/ PoolStart
    \/ \E r \in DOMAIN reqs : AnalyzeJob(r)
    \/ \E r \in DOMAIN reqs : AnalyzeRespond(r, FALSE)
    \/ \E r \in DOMAIN reqs : ReportReceive(r, StoredId)
    \/ \E r \in DOMAIN reqs : ReportJob(r, FALSE)
    \/ \E r \in DOMAIN reqs : ReportRespond(r)
    \/ \E r \in DOMAIN reqs : HealthCheck(r)

SpecPool == InitPool /\ [][NextPool]_vars

-----------------------------------------------------------------------------
(* Properties *)

\* The last call was analyze_image and it returned (did not raise).
Returned == call.op = "analyze_image" /\ ~result.raised

\* The last call took the CNN branch and float(prediction[0][0]) gave p.
CnnScored == Returned /\ call.branch = "cnn" /\ call.p # -1

\* The last call took the heuristic branch and counted its indicators.
HeuristicCounted == Returned /\ call.branch = "heuristic" /\ call.indicators # -1

\* The reported confidence c (hundredths of a percent) is the percentage
\* `score` (confidence_score units) to the nearest hundredth.
NearestHundredth(c, score) ==
    /\ 2 * (c * RoundUnit - score) <= RoundUnit
    /\ 2 * (score - c * RoundUnit) <= RoundUnit

\* C1: on the CNN path, p > 0.5 gives verdict Forged with confidence p*100,
\* otherwise verdict Genuine with confidence (1-p)*100; the confidence is
\* reported to the nearest hundredth of a percent.
C1_VerdictMapping ==
    CnnScored =>
        IF 2 * call.p > Scale
            THEN /\ result.verdict = "Forged"
                 /\ NearestHundredth(result.confidence, call.p)
            ELSE /\ result.verdict = "Genuine"
                 /\ NearestHundredth(result.confidence, Scale - call.p)

\* p = 0.123456 reported as Genuine with confidence 87.65.
C1_Witness ==
    /\ CnnScored
    /\ call.p = 123456
    /\ result.verdict = "Genuine"
    /\ result.confidence = 8765

\* C2 as claimed: at p = 0.5 on the CNN path the verdict is Forged with
\* confidence 50.0.
C2_BoundaryForged ==
    (CnnScored /\ 2 * call.p = Scale) =>
        (result.verdict = "Forged" /\ result.confidence = 5000)

\* C2 as amended: at p = 0.5 on the CNN path the verdict is Genuine with
\* confidence 50.0; Forged needs p strictly above 0.5.
C2_BoundaryGenuine ==
    /\ (CnnScored /\ 2 * call.p = Scale) =>
            (result.verdict = "Genuine" /\ result.confidence = 5000)
    /\ (CnnScored /\ 2 * call.p = Scale + 2) => result.verdict = "Forged"

\* A call whose classifier answered exactly 0.5.
C2_Witness ==
    /\ CnnScored
    /\ 2 * call.p = Scale
    /\ result.verdict = "Genuine"
    /\ result.confidence = 5000

\* C3: every result analyze_image returns, on the CNN, heuristic and error
\* paths, has a confidence between 0 and 100 percent.
C3_ConfidenceRange ==
    Returned => (result.confidence >= 0 /\ result.confidence <= 100 * 100)

\* A heuristic result whose uncapped confidence, 60 + 3 * 15, exceeds 100.
C3_Witness ==
    /\ HeuristicCounted
    /\ call.indicators = 3
    /\ result.confidence = 95 * 100

\* C4: in the heuristic classifier, n >= 2 indicators give verdict Forged
\* with confidence min(60 + 15 n, 95); n < 2 give verdict Genuine with
\* confidence min(70 + (3 - n) 10, 95).
C4_HeuristicMapping ==
    HeuristicCounted =>
        LET n == call.indicators
        IN  /\ n \in 0..3
            /\ n >= 2 => /\ result.verdict = "Forged"
                         /\ result.confidence = 100 * Min(60 + 15 * n, 95)
            /\ n < 2  => /\ result.verdict = "Genuine"
                         /\ result.confidence = 100 * Min(70 + (3 - n) * 10, 95)

\* Two indicators: Forged with confidence 90.
C4_Witness ==
    /\ HeuristicCounted
    /\ call.indicators = 2
    /\ result.verdict = "Forged"
    /\ result.confidence = 90 * 100

\* C5 as claimed: one indicator gives Genuine with confidence 80 (three
\* give Forged / 95, none gives Genuine / 95).
C5_OneIndicatorEighty ==
    HeuristicCounted =>
        /\ call.indicators = 1 => (result.verdict = "Genuine" /\ result.confidence = 80 * 100)
        /\ call.indicators = 3 => (result.verdict = "Forged" /\ result.confidence = 95 * 100)
        /\ call.indicators = 0 => (result.verdict = "Genuine" /\ result.confidence = 95 * 100)

\* C5 as amended: one indicator gives Genuine with confidence 90 (three
\* give Forged / 95, none gives Genuine / 95).
C5_OneIndicatorNinety ==
    HeuristicCounted =>
        /\ call.indicators = 1 => (result.verdict = "Genuine" /\ result.confidence = 90 * 100)
        /\ call.indicators = 3 => (result.verdict = "Forged" /\ result.confidence = 95 * 100)
        /\ call.indicators = 0 => (result.verdict = "Genuine" /\ result.confidence = 95 * 100)

\* A heuristic result with exactly one indicator.
C5_Witness ==
    /\ HeuristicCounted
    /\ call.indicators = 1
    /\ result.verdict = "Genuine"
    /\ result.confidence = 90 * 100

\* The last call was given a file that cannot be decoded.
Undecodable == call.op = "analyze_image" /\ call.src_kind \notin Decodable

\* C6 as claimed: analyze_image on an undecodable file returns verdict
\* Error with confidence 0.0, and nothing is raised to the caller.
C6_UndecodableIsError ==
    Undecodable =>
        (~result.raised /\ result.verdict = "Error" /\ result.confidence = 0)

\* C6 as amended: analyze_image on an undecodable file raises nothing to
\* the caller; the ELA map and tensor are all zero, and with a model whose
\* output can be read the result is the classifier's verdict for the zero
\* tensor (Genuine or Forged), not Error.  It is Error with confidence 0.0
\* only when the output cannot be read or no model is present.
C6_UndecodableIsClassified ==
    Undecodable =>
        /\ ~result.raised
        /\ call.ela = ZeroMap
        /\ call.tensor = ZeroTensor
        /\ (call.branch = "cnn" /\ call.p # -1) =>
                /\ call.p = model.p[0]
                /\ result.verdict = (IF 2 * call.p > Scale THEN "Forged" ELSE "Genuine")
        /\ (call.branch = "heuristic" \/ call.p = -1) =>
                (result.verdict = "Error" /\ result.confidence = 0)

\* An undecodable file reported as Forged.
C6_Witness ==
    /\ Undecodable
    /\ call.src_kind = "garbage"
    /\ call.branch = "cnn"
    /\ result.verdict = "Forged"

\* C7: a failure at any step of calculate_ela stays inside it: it returns
\* the all-zero 128x128x3 map without raising, the tensor is the zero
\* tensor, the classifier is still run, and whenever the classifier's
\* output can be read the result is a well-formed Genuine or Forged one.
C7_ElaFailureContained ==
    (call.op = "analyze_image" /\ call.ela_failed # "none") =>
        /\ ~call.ela_raised
        /\ call.ela = [shape |-> <<128, 128, 3>>, peak |-> 0]
        /\ call.tensor = [shape |-> <<1, 128, 128, 3>>, peak |-> 0]
        /\ ~result.raised
        /\ call.branch = "cnn"
        /\ call.p # -1 =>
                /\ result.verdict \in {"Genuine", "Forged"}
                /\ result.ela_processed
                /\ result.analysis_method = "CNN + ELA"
                /\ result.error = "absent"

\* The removal of the temp file failed and the result is still a verdict.
C7_Witness ==
    /\ call.op = "analyze_image"
    /\ call.ela_failed = "remove"
    /\ call.ela = ZeroMap
    /\ result.verdict \in {"Genuine", "Forged"}

\* C8 as claimed: a predict output of any shape other than (1,1) ends the
\* analysis with verdict Error.
C8_OtherShapeIsError ==
    (Returned /\ call.branch = "cnn" /\ call.out_shape # <<1, 1>>) =>
        result.verdict = "Error"

\* C9 as claimed: every result with verdict Error has confidence 0.0,
\* ela_processed false and no analysis_method.
C9_ErrorResultShape ==
    (Returned /\ result.verdict = "Error") =>
        /\ result.confidence = 0
        /\ ~result.ela_processed
        /\ result.analysis_method = "absent"

\* C10: construction never fails; a model file that exists and loads gives
\* the loaded model, an absent or unloadable file gives the placeholder.
C10_ModelSelection ==
    /\ pc # "failed"
    /\ pc = "ready" =>
        /\ artifact.kind = "valid" => (model = artifact.holds /\ model.kind = "loaded")
        /\ artifact.kind \in {"absent", "corrupt"} => model.kind = "placeholder"

\* A detector built over a model file that exists but does not load.
C10_Witness ==
    /\ pc = "ready"
    /\ artifact.kind = "corrupt"
    /\ model.kind = "placeholder"

\* C11: a POST /api/analyze answered 200 has its document in db.analyses;
\* a GET /api/generate-report that arrives after that answer with the same id
\* finds the document, and answers 200 unless building the PDF raised.
C11_PersistedBeforeResponse ==
    [][/\ \A r \in DOMAIN reqs :
            (reqs'[r].kind = "analyze" /\ reqs'[r].status = 200) =>
                find_one(db', reqs'[r].id) # {}
       /\ \A r \in DOMAIN reqs, q \in DOMAIN reqs :
            (/\ reqs[r].kind = "analyze" /\ reqs[r].status = 200
             /\ reqs[q].kind = "report" /\ reqs[q].pc = "new" /\ reqs'[q].pc # "new"
             /\ reqs'[q].id = reqs[r].id)
            => (reqs'[q].found /\ reqs'[q].pc = "queued")
       /\ \A q \in DOMAIN reqs :
            (/\ reqs'[q].kind = "report" /\ reqs'[q].pc = "responded"
             /\ reqs'[q].found /\ ~reqs'[q].ret.raised)
            => reqs'[q].status = 200]_vars

\* An analysis answered 200 and a report for its id answered 200.
C11_Witness ==
    \E r \in DOMAIN reqs, q \in DOMAIN reqs :
        /\ reqs[r].kind = "analyze" /\ reqs[r].status = 200
        /\ reqs[q].kind = "report" /\ reqs[q].pc = "responded"
        /\ reqs[q].id = reqs[r].id
        /\ reqs[q].found
        /\ reqs[q].status = 200
        /\ fs[ReportPath(reqs[r].id)] = PdfFile

\* C12 as claimed: a call of analyze_image that repeats the previous call's
\* path, with the same model and the environment failing neither call,
\* returns the same verdict and confidence as the previous call.
C12_RepeatSameResult ==
    [][(/\ call.op = "analyze_image" /\ ~call.env_fault
        /\ call'.op = "analyze_image" /\ ~call'.env_fault
        /\ call'.path = call.path
        /\ model' = model)
       => (/\ result'.verdict = result.verdict
           /\ result'.confidence = result.confidence)]_vars

\* C13: at most 4 pool jobs execute at any moment, a job executes only on a
\* pool worker, the queued ones wait, and a request that needs no pool can
\* be answered whatever the pool is doing.
C13_BoundedPool ==
    /\ Cardinality(running) <= 4
    /\ \A r \in DOMAIN reqs : reqs[r].pc = "running" <=> r \in running
    /\ \A i \in 1..Len(queue) : reqs[queue[i]].pc = "queued"
    /\ \A r \in DOMAIN reqs :
        (reqs[r].kind = "health" /\ reqs[r].pc = "new") => ENABLED HealthCheck(r)

\* Four jobs executing, analyses and reports, a fifth waiting, and the
\* health check not yet asked.
C13_Witness ==
    /\ Cardinality(running) = 4
    /\ queue # <<>>
    /\ \E r \in running : reqs[r].kind = "analyze"
    /\ \E r \in running : reqs[r].kind = "report"
    /\ \E r \in DOMAIN reqs : reqs[r].kind = "health" /\ reqs[r].pc = "new"

\* C14 as claimed: once calculate_ela has written its temp file, the file is
\* gone when the call is over, whether the call produced a real map or the
\* zero map.
C14_TempFileGone ==
    (call.op = "analyze_image" /\ call.ela_failed \notin {"open", "save"}) =>
        fs[TempPath(call.path)].kind = "absent"

\* C15 as claimed: a report request for an id with no stored analysis is
\* answered 404 'Analysis not found' and no report file is written.
C15_UnknownIdIs404 ==
    \A q \in DOMAIN reqs :
        (reqs[q].kind = "report" /\ reqs[q].pc = "responded" /\ ~reqs[q].found) =>
            /\ reqs[q].status = 404
            /\ fs[ReportPath(reqs[q].id)] = Absent

\* C16: the step that takes in an upload whose content type is neither
\* image/jpeg nor image/png answers 400 and changes nothing else: no file,
\* no pool job, no document.
C16_BadTypeRejected ==
    [][\A r \in DOMAIN reqs :
        (/\ reqs[r].kind = "analyze" /\ reqs[r].pc = "new" /\ reqs'[r].pc # "new"
         /\ reqs'[r].upload.content_type \notin {"image/jpeg", "image/png"})
        => (/\ reqs'[r].pc = "responded"
            /\ reqs'[r].status = 400
            /\ reqs'[r].ret = NoResult
            /\ fs' = fs
            /\ db' = db
            /\ queue' = queue
            /\ running' = running)]_vars

\* A text/plain upload was rejected while the other upload was taken in.
C16_Witness ==
    \E r \in DOMAIN reqs, s \in DOMAIN reqs :
        /\ reqs[r].upload.content_type = "text/plain"
        /\ reqs[r].status = 400
        /\ reqs[s].kind = "analyze" /\ reqs[s].status = 200

\* C17 as claimed: the temp file is another file than the input, and the
\* input is still there with the content it had before the call.
C17_InputUntouched ==
    call.op = "analyze_image" =>
        /\ TempPath(call.path) # call.path
        /\ fs[call.path].kind = call.src_kind

\* C18: a constructed detector always has a model, analyze_image takes the
\* CNN branch, and every result that is not an Error reports analysis_method
\* 'CNN + ELA' with ela_processed true.
C18_ModelNeverAbsent ==
    pc = "ready" =>
        /\ model.kind \in {"loaded", "placeholder"}
        /\ Returned =>
            /\ call.branch = "cnn"
            /\ result.verdict # "Error" =>
                (result.analysis_method = "CNN + ELA" /\ result.ela_processed)

\* A verdict from a detector built over an unloadable model file.
C18_Witness ==
    /\ pc = "ready"
    /\ artifact.kind = "corrupt"
    /\ Returned
    /\ result.verdict = "Genuine"
    /\ result.analysis_method = "CNN + ELA"

\* The upload of request r has been written and its answer is not yet sent.
InFlight(r) ==
    /\ reqs[r].kind = "analyze"
    /\ reqs[r].pc \in {"queued", "running", "reopen", "remove", "finished"}

\* What analyze_image returns for the upload of r with no other file around.
AloneResult(r) ==
    analyze_image(model,
                  [q \in DOMAIN fs |->
                      IF q = reqs[r].path THEN reqs[r].upload.content ELSE Absent],
                  reqs[r].path, "none", NoMetrics, FALSE).ret

\* C19: two analyses in flight have four pairwise distinct paths (two
\* uploads, two temp files), and every finished analysis has the result
\* analyze_image gives for its upload alone.
C19_Isolated ==
    /\ \A r \in DOMAIN reqs, s \in DOMAIN reqs :
        (r # s /\ InFlight(r) /\ InFlight(s)) =>
            Cardinality({reqs[r].path, TempPath(reqs[r].path),
                         reqs[s].path, TempPath(reqs[s].path)}) = 4
    /\ \A r \in DOMAIN reqs :
        (reqs[r].kind = "analyze" /\ reqs[r].pc \in {"finished", "responded"}
         /\ reqs[r].path # <<>>) =>
            reqs[r].ret = AloneResult(r)

\* One analysis finished on a real ELA map while the other, of another
\* image, has its temp file on disk.
C19_Witness ==
    \E r \in DOMAIN reqs, s \in DOMAIN reqs :
        /\ reqs[r].pc = "finished" /\ reqs[r].ela.peak # 0
        /\ reqs[r].ret.verdict \in {"Forged", "Genuine"}
        /\ reqs[s].pc = "remove"
        /\ reqs[s].upload # reqs[r].upload
        /\ fs[TempPath(reqs[s].path)].kind = "jpeg"

====
